---- MODULE Spec2Model ----
(***************************************************************************)
(* Dual-video synchronized playback of src/src/app/page.tsx: the VideoMesh *)
(* component (readiness gate, drift corrector, playVideo / pauseVideo /    *)
(* seekTo) and the VideoPlayer component that drives it (togglePlayPause,  *)
(* seekToTime, readiness poll, error display).                             *)
(*                                                                         *)
(* Everything runs on one event loop.  One action of the model is one task *)
(* of that loop together with the microtasks it triggers: an event         *)
(* handler, a timer callback, or the settlement of a play() promise with   *)
(* the continuation of the awaiting playVideo call.                        *)
(*                                                                         *)
(* Time is counted on a grid of 100 ms, so SYNC_THRESHOLD (0.1 s) is 1.    *)
(***************************************************************************)
EXTENDS Integers, FiniteSets, Sequences, TLC

\* ------------------------------------------------------------- bounds
MaxPos == 2          \* media duration, in grid units (positions 0..MaxPos)
MaxTimerId == 2      \* interval ids handed out by window.setInterval
MaxInFlight == 1     \* playVideo calls awaiting their play() promises

\* ------------------------------------------------- program constants
SYNC_THRESHOLD == 1      \* 0.1 s on the 100 ms grid
HAVE_METADATA == 1
HAVE_FUTURE_DATA == 3
Null == 0                \* syncIntervalRef.current = null (tested by truthiness)

Elems == {"main", "mask"}
ReadyStates == {0, 2, 3}     \* HAVE_NOTHING, HAVE_CURRENT_DATA, HAVE_FUTURE_DATA
NoError == "none"
Msgs == {"", "decode"}       \* MediaError.message; "" is an absent message
SeekTimes == {0, 50, 100}    \* the Start / 5s / 10s buttons, in grid units
TimerIds == 1..MaxTimerId
Slots == 1..MaxInFlight

VARIABLES
    readyState,      \* [Elems -> ReadyStates]   HTMLMediaElement.readyState
    elemError,       \* [Elems -> {NoError} \cup Msgs]  HTMLMediaElement.error
    paused,          \* [Elems -> BOOLEAN]       HTMLMediaElement.paused
    currentTime,     \* [Elems -> 0..MaxPos]     HTMLMediaElement.currentTime
    syncIntervalRef, \* Null or the id of the interval started last
    timers,          \* ids of the intervals window has scheduled
    bothVideosReady, \* VideoMesh state, as the current render's closures see it
    readyUpdate,     \* a setBothVideosReady(true) awaits the next render
    calls,           \* [Slots -> [Elems -> {"none","pending","resolved"}]]
    isPlaying,       \* VideoPlayer state
    videosReady,     \* VideoPlayer state
    error,           \* VideoPlayer state: <<>> (null) or <<prefix, text>>
    loadingStatus,   \* VideoPlayer state
    mounted,         \* VideoMesh is mounted (its effects are subscribed)
    started,         \* history: some playVideo call passed its guard
    pausedSince,     \* history: pauseVideo returned, no playVideo call since
    seekedSince,     \* history: seekTo ran while Playing, no tick (or pause) since
    last             \* history: the task that ran last

vars == <<readyState, elemError, paused, currentTime, syncIntervalRef, timers,
          bothVideosReady, readyUpdate, calls, isPlaying, videosReady, error,
          loadingStatus, mounted, started, pausedSince, seekedSince, last>>

Abs(x) == IF x < 0 THEN -x ELSE x

NoCall == [e \in Elems |-> "none"]
NewCall == [e \in Elems |-> "pending"]

\* ---------------------------------------------------- media element
\* The currentTime setter seeks, and a seek clamps to [0, duration].
Clamp(t) == IF t < 0 THEN 0 ELSE IF t > MaxPos THEN MaxPos ELSE t

\* Playback with loop: true runs to the end and starts over.
Advanced(t) == IF t >= MaxPos THEN 0 ELSE t + 1

\* ---------------------------------------------------- derived state
HasError == \E e \in Elems : elemError[e] # NoError

\* SyncState of the pair, read off the handles and the corrector: the pair is
\* Playing once a playVideo call has run to its end (both play() promises
\* resolved, the corrector started) and the elements have not been paused since.
SyncState ==
    IF HasError THEN "Error"
    ELSE IF ~bothVideosReady THEN "NotReady"
    ELSE IF syncIntervalRef # Null /\ \A e \in Elems : ~paused[e] THEN "Playing"
    ELSE IF started THEN "Paused"
    ELSE "Ready"

\* History record of the task that ran last: its name, the SyncState it was
\* called in (for the transport operations and the error handlers) and what
\* it found: for a corrector tick the drift it measured, for pauseVideo
\* whether an interval was scheduled, for startSyncMonitoring whether the
\* ref held one, for an element's error which element, for a rejected play()
\* whether the other promise had resolved, for an unmount whether a playVideo
\* call was suspended at its await, for playVideo whether the primary had
\* left position 0 (and whether the call resumes after a pauseVideo).
Rec(op, pre, info) == [op |-> op, pre |-> pre, info |-> info]

\* ------------------------------------------------------- VideoMesh
\* checkReady: TRUE iff it calls setBothVideosReady(true).  bvr is the value
\* of bothVideosReady the closure captured.
checkReady(rs, bvr) ==
    LET videoReady == rs["main"] >= HAVE_FUTURE_DATA
        maskReady == rs["mask"] >= HAVE_FUTURE_DATA
    IN  videoReady /\ maskReady /\ ~bvr

\* A variant of the readiness effect without its immediate check.
readinessEffect_lazy(rs, bvr) == FALSE

\* The readiness effect, run after a render: it subscribes checkReady to
\* canplay and calls it at once.  TRUE iff that call queues an update.
readinessEffect(rs, bvr) == checkReady(rs, bvr)

\* Variants of syncVideos with one slip each: the correction written to the
\* primary, the threshold test made non-strict, the drift taken without abs.
syncVideos_writesPrimary(ct) ==
    LET mainTime == ct["main"]
        maskTime == ct["mask"]
        timeDiff == Abs(mainTime - maskTime)
    IN  IF timeDiff > SYNC_THRESHOLD
        THEN [ct EXCEPT !["main"] = Clamp(maskTime)]
        ELSE ct

syncVideos_atThreshold(ct) ==
    LET mainTime == ct["main"]
        maskTime == ct["mask"]
        timeDiff == Abs(mainTime - maskTime)
    IN  IF timeDiff >= SYNC_THRESHOLD
        THEN [ct EXCEPT !["mask"] = Clamp(mainTime)]
        ELSE ct

syncVideos_oneSided(ct) ==
    LET mainTime == ct["main"]
        maskTime == ct["mask"]
        timeDiff == mainTime - maskTime
    IN  IF timeDiff > SYNC_THRESHOLD
        THEN [ct EXCEPT !["mask"] = Clamp(mainTime)]
        ELSE ct

\* syncVideos: the positions after one corrector tick.
syncVideos(ct) ==
    LET mainTime == ct["main"]
        maskTime == ct["mask"]
        timeDiff == Abs(mainTime - maskTime)
    IN  IF timeDiff > SYNC_THRESHOLD
        THEN [ct EXCEPT !["mask"] = Clamp(mainTime)]
        ELSE ct

\* window.setInterval hands out an id no scheduled interval has.
NewTimerId(tm) ==
    CHOOSE id \in TimerIds \ tm : \A other \in TimerIds \ tm : id <= other

\* A variant of startSyncMonitoring without the clearInterval.
startSyncMonitoring_noClear(ref, tm) ==
    LET id == NewTimerId(tm)
    IN  [ref |-> id, timers |-> tm \cup {id}]

\* startSyncMonitoring: clears the interval the ref holds, schedules a new one.
startSyncMonitoring(ref, tm) ==
    LET id == NewTimerId(tm)
        cleared == IF ref # Null THEN tm \ {ref} ELSE tm
    IN  [ref |-> id, timers |-> cleared \cup {id}]

\* A variant of stopSyncMonitoring that nulls the ref without clearInterval.
stopSyncMonitoring_noClear(ref, tm) ==
    IF ref # Null
    THEN [ref |-> Null, timers |-> tm]
    ELSE [ref |-> ref, timers |-> tm]

\* A variant of stopSyncMonitoring that clears the interval and keeps the ref.
stopSyncMonitoring_keepRef(ref, tm) ==
    IF ref # Null
    THEN [ref |-> ref, timers |-> tm \ {ref}]
    ELSE [ref |-> ref, timers |-> tm]

\* stopSyncMonitoring: clears the interval the ref holds and nulls the ref.
stopSyncMonitoring(ref, tm) ==
    IF ref # Null
    THEN [ref |-> Null, timers |-> tm \ {ref}]
    ELSE [ref |-> ref, timers |-> tm]

\* HTMLMediaElement.pause() on both elements.
pauseBoth(p) == [e \in Elems |-> TRUE]

\* A variant of playPromises that starts the mask first.
playPromises_maskFirst == <<"mask", "main">>

\* playPromises: the elements in the order playVideo calls play() on them.
playPromises == <<"main", "mask">>

\* HTMLMediaElement.play() on the elements of playPromises: an element in
\* error does not start (its promise rejects, see SettlePlay).
playBoth(p) ==
    [e \in Elems |->
        IF (\E i \in DOMAIN playPromises : playPromises[i] = e)
           /\ elemError[e] = NoError
        THEN FALSE ELSE p[e]]

\* The guard of playVideo: TRUE iff the call returns at its "not ready" warning.
playRefused(bvr) == ~bvr

\* A variant of startTime that resumes from the primary's position.
startTime_resume(ct) == ct["main"]

\* playVideo's startTime: "const startTime = 0".
startTime(ct) == 0

\* History record of an accepted playVideo: as Rec, with the order in which
\* play() was called on the elements.
PlayRec(pre, info) ==
    [op |-> "playVideo", pre |-> pre, info |-> info, issued |-> playPromises]

FreeSlots == {c \in Slots : calls[c] = NoCall}
FreeSlot == CHOOSE c \in FreeSlots : \A d \in FreeSlots : c <= d

\* playVideo up to its await: reset both positions, issue both play() calls.
\* The continuation is SettlePlay.
playVideo ==
    /\ pausedSince' = FALSE
    /\ UNCHANGED seekedSince
    /\ IF playRefused(bothVideosReady)
       THEN /\ UNCHANGED <<currentTime, paused, calls, started>>
            /\ last' = Rec("playRefused", SyncState, "na")
       ELSE /\ FreeSlots # {}
            /\ currentTime' = [e \in Elems |-> Clamp(startTime(currentTime))]
            /\ paused' = playBoth(paused)
            /\ calls' = [calls EXCEPT ![FreeSlot] = NewCall]
            /\ started' = TRUE
            /\ last' = PlayRec(SyncState,
                               IF currentTime["main"] = 0 THEN "atZero"
                               ELSE IF pausedSince THEN "resumeMoved"
                               ELSE "moved")
    /\ UNCHANGED <<syncIntervalRef, timers>>

\* pauseVideo: stop the corrector first, then pause both elements.
pauseVideo ==
    LET stop == stopSyncMonitoring(syncIntervalRef, timers)
    IN  /\ syncIntervalRef' = stop.ref
        /\ timers' = stop.timers
        /\ paused' = pauseBoth(paused)
        /\ pausedSince' = TRUE
        /\ seekedSince' = FALSE
        /\ last' = Rec("pauseVideo", SyncState,
                       IF timers # {} THEN "running" ELSE "stopped")
        /\ UNCHANGED <<currentTime, calls, started>>

\* A variant of seekTo that forgets the mask element.
seekTo_primaryOnly(ct, t) == [ct EXCEPT !["main"] = Clamp(t)]

\* seekTo: both positions to the same time, each clamped by its element.
seekTo(ct, t) == [e \in Elems |-> Clamp(t)]

\* onVideoError -> VideoPlayer.handleVideoError
handleVideoError(msg) ==
    /\ error' = msg
    /\ loadingStatus' = "Error loading videos"

\* onVideoLoad -> VideoPlayer.handleVideoLoad
handleVideoLoad ==
    /\ error' = <<>>
    /\ loadingStatus' = "Videos loaded successfully"

\* A variant of ErrorText that drops the element's message.
ErrorText_dropped(m) == "Unknown error"

\* error?.message || 'Unknown error'
ErrorText(m) == IF m = "" THEN "Unknown error" ELSE m
ErrorPrefix(e) == IF e = "main" THEN "Main video error: " ELSE "Mask video error: "

\* ---------------------------------------------------------- actions
Init ==
    /\ readyState \in [Elems -> ReadyStates]
    /\ elemError = [e \in Elems |-> NoError]
    /\ paused = [e \in Elems |-> TRUE]
    /\ currentTime = [e \in Elems |-> 0]
    /\ syncIntervalRef = Null
    /\ timers = {}
    /\ bothVideosReady = FALSE
    /\ readyUpdate = readinessEffect(readyState, FALSE)
    /\ calls = [c \in Slots |-> NoCall]
    /\ isPlaying = FALSE
    /\ videosReady = FALSE
    /\ error = <<>>
    /\ loadingStatus = IF readyState["main"] >= HAVE_METADATA
                       THEN "Videos loaded successfully" ELSE "Loading..."
    /\ mounted = TRUE
    /\ started = FALSE
    /\ pausedSince = FALSE
    /\ seekedSince = FALSE
    /\ last = Rec("init", "na", "na")

\* The decoder moves an element's readyState.  Metadata, once loaded, stays
\* loaded; buffered data can run out again.  Reaching HAVE_FUTURE_DATA fires
\* canplay (checkReady); the main element reaching HAVE_METADATA fires
\* loadedmetadata (handleVideoLoad).  After the unmount the listeners are gone.
ReadyStateChange(e, r) ==
    /\ elemError[e] = NoError
    /\ r # readyState[e]
    /\ r < readyState[e] => r >= HAVE_METADATA
    /\ readyState' = [readyState EXCEPT ![e] = r]
    /\ readyUpdate' =
          IF mounted /\ readyState[e] < HAVE_FUTURE_DATA /\ r >= HAVE_FUTURE_DATA
          THEN readyUpdate \/ checkReady(readyState', bothVideosReady)
          ELSE readyUpdate
    /\ IF mounted /\ e = "main" /\ readyState[e] < HAVE_METADATA
          /\ r >= HAVE_METADATA
       THEN handleVideoLoad
       ELSE UNCHANGED <<error, loadingStatus>>
    /\ last' = Rec("env", "na", "na")
    /\ UNCHANGED <<elemError, paused, currentTime, syncIntervalRef, timers,
                   bothVideosReady, calls, isPlaying, videosReady, mounted,
                   started, pausedSince, seekedSince>>

\* A variant of Render in which the gate follows the elements' readiness
\* (setBothVideosReady(videoReady && maskReady)) instead of latching.
Render_tracking ==
    /\ mounted
    /\ bothVideosReady # (\A e \in Elems : readyState[e] >= HAVE_FUTURE_DATA)
    /\ bothVideosReady' = (\A e \in Elems : readyState[e] >= HAVE_FUTURE_DATA)
    /\ readyUpdate' = FALSE
    /\ last' = Rec("env", "na", "na")
    /\ UNCHANGED <<readyState, elemError, paused, currentTime, syncIntervalRef,
                   timers, calls, isPlaying, videosReady, error, loadingStatus,
                   mounted, started, pausedSince, seekedSince>>

\* React renders VideoMesh with the updated state and runs its effects: the
\* callbacks and the mesh's properties now carry bothVideosReady = true, and
\* the readiness effect runs checkReady again (which then does nothing).
Render ==
    /\ mounted
    /\ readyUpdate
    /\ bothVideosReady' = TRUE
    /\ readyUpdate' = readinessEffect(readyState, TRUE)
    /\ last' = Rec("env", "na", "na")
    /\ UNCHANGED <<readyState, elemError, paused, currentTime, syncIntervalRef,
                   timers, calls, isPlaying, videosReady, error, loadingStatus,
                   mounted, started, pausedSince, seekedSince>>

\* An element reports an error: handleVideoError / handleMaskError.
ElementError(e, m) ==
    /\ elemError[e] = NoError
    /\ elemError' = [elemError EXCEPT ![e] = m]
    /\ IF mounted
       THEN /\ handleVideoError(<<ErrorPrefix(e), ErrorText(m)>>)
            /\ last' = Rec("error", SyncState, e)
       ELSE /\ last' = Rec("env", "na", "na")
            /\ UNCHANGED <<error, loadingStatus>>
    /\ UNCHANGED <<readyState, paused, currentTime, syncIntervalRef, timers,
                   bothVideosReady, readyUpdate, calls, isPlaying, videosReady,
                   mounted, started, pausedSince, seekedSince>>

\* A click on the mesh calls playVideo directly.
MeshClick ==
    /\ mounted
    /\ playVideo
    /\ UNCHANGED <<readyState, elemError, bothVideosReady, readyUpdate,
                   isPlaying, videosReady, error, loadingStatus, mounted>>

\* VideoPlayer.togglePlayPause
TogglePlayPause ==
    /\ IF mounted /\ videosReady
       THEN /\ IF isPlaying THEN pauseVideo ELSE playVideo
            /\ isPlaying' = ~isPlaying
       ELSE /\ last' = Rec("toggleRefused", "na", "na")
            /\ UNCHANGED <<paused, currentTime, syncIntervalRef, timers, calls,
                           isPlaying, started, pausedSince, seekedSince>>
    /\ UNCHANGED <<readyState, elemError, bothVideosReady, readyUpdate,
                   videosReady, error, loadingStatus, mounted>>

\* VideoPlayer.seekToTime
SeekToTime(t) ==
    /\ IF mounted /\ videosReady
       THEN /\ currentTime' = seekTo(currentTime, t)
            /\ seekedSince' = (seekedSince \/ SyncState = "Playing")
            /\ last' = Rec("seekTo", SyncState, "na")
       ELSE /\ last' = Rec("seekRefused", "na", "na")
            /\ UNCHANGED <<currentTime, seekedSince>>
    /\ UNCHANGED <<readyState, elemError, paused, syncIntervalRef, timers,
                   bothVideosReady, readyUpdate, calls, isPlaying, videosReady,
                   error, loadingStatus, mounted, started, pausedSince>>

\* One play() promise of call c settles, and with it, when Promise.all
\* settles, the rest of playVideo runs: startSyncMonitoring after both have
\* resolved, the catch block at the first rejection.
SettlePlay(c, e, ok) ==
    /\ calls[c][e] = "pending"
    /\ elemError[e] # NoError => ~ok
    /\ IF ok
       THEN IF \A o \in Elems \ {e} : calls[c][o] = "resolved"
            THEN LET start == startSyncMonitoring(syncIntervalRef, timers)
                 IN  /\ syncIntervalRef' = start.ref
                     /\ timers' = start.timers
                     /\ calls' = [calls EXCEPT ![c] = NoCall]
                     /\ last' = Rec("started", "na",
                                    IF syncIntervalRef # Null THEN "restart"
                                    ELSE "fresh")
                     /\ UNCHANGED <<error, loadingStatus>>
            ELSE /\ calls' = [calls EXCEPT ![c][e] = "resolved"]
                 /\ last' = Rec("env", "na", "na")
                 /\ UNCHANGED <<syncIntervalRef, timers, error, loadingStatus>>
       ELSE /\ calls' = [calls EXCEPT ![c] = NoCall]
            /\ handleVideoError(<<"Playback error: ", "rejected">>)
            /\ last' = Rec("playFailed", "na",
                           IF \E o \in Elems : calls[c][o] = "resolved"
                           THEN "partial" ELSE "first")
            /\ UNCHANGED <<syncIntervalRef, timers>>
    /\ UNCHANGED <<readyState, elemError, paused, currentTime, bothVideosReady,
                   readyUpdate, isPlaying, videosReady, mounted, started,
                   pausedSince, seekedSince>>

\* A scheduled interval fires: syncVideos.
Tick(id) ==
    /\ id \in timers
    /\ currentTime' = syncVideos(currentTime)
    /\ last' = Rec("tick", "na",
                   IF Abs(currentTime["main"] - currentTime["mask"]) <= SYNC_THRESHOLD
                   THEN "within"
                   ELSE IF currentTime["main"] > currentTime["mask"]
                        THEN "mainAhead" ELSE "maskAhead")
    /\ UNCHANGED <<readyState, elemError, paused, syncIntervalRef, timers,
                   bothVideosReady, readyUpdate, calls, isPlaying, videosReady,
                   error, loadingStatus, mounted, started, pausedSince>>
    /\ seekedSince' = FALSE

\* A playing element's own clock moves its position on.
Advance(e) ==
    /\ ~paused[e]
    /\ elemError[e] = NoError
    /\ currentTime' = [currentTime EXCEPT ![e] = Advanced(currentTime[e])]
    /\ last' = Rec("env", "na", "na")
    /\ UNCHANGED <<readyState, elemError, paused, syncIntervalRef, timers,
                   bothVideosReady, readyUpdate, calls, isPlaying, videosReady,
                   error, loadingStatus, mounted, started, pausedSince,
                   seekedSince>>

\* A variant of checkReadiness that takes the loaded main video for readiness.
CheckReadiness_onLoad ==
    /\ mounted
    /\ ~videosReady
    /\ readyState["main"] >= HAVE_METADATA
    /\ videosReady' = TRUE
    /\ loadingStatus' = "Videos synchronized and ready"
    /\ last' = Rec("env", "na", "na")
    /\ UNCHANGED <<readyState, elemError, paused, currentTime, syncIntervalRef,
                   timers, bothVideosReady, readyUpdate, calls, isPlaying, error,
                   mounted, started, pausedSince, seekedSince>>

\* VideoPlayer.checkReadiness, every 100 ms: copies mesh.bothVideosReady.
CheckReadiness ==
    /\ mounted
    /\ bothVideosReady # videosReady
    /\ videosReady' = bothVideosReady
    /\ loadingStatus' = IF bothVideosReady THEN "Videos synchronized and ready"
                        ELSE loadingStatus
    /\ last' = Rec("env", "na", "na")
    /\ UNCHANGED <<readyState, elemError, paused, currentTime, syncIntervalRef,
                   timers, bothVideosReady, readyUpdate, calls, isPlaying, error,
                   mounted, started, pausedSince, seekedSince>>

\* VideoMesh is unmounted: React runs the effects' cleanups (the listeners
\* are removed, stopSyncMonitoring is called) and drops the component's
\* queued updates.  The elements, the play() promises in flight and the
\* closures of a suspended playVideo call live on.
Unmount ==
    /\ mounted
    /\ mounted' = FALSE
    /\ LET stop == stopSyncMonitoring(syncIntervalRef, timers)
       IN  /\ syncIntervalRef' = stop.ref
           /\ timers' = stop.timers
    /\ readyUpdate' = FALSE
    /\ last' = Rec("unmount", SyncState,
                   IF FreeSlots # Slots THEN "awaiting" ELSE "idle")
    /\ UNCHANGED <<readyState, elemError, paused, currentTime, bothVideosReady,
                   calls, isPlaying, videosReady, error, loadingStatus, started,
                   pausedSince, seekedSince>>

Next ==
    \/ \E e \in Elems, r \in ReadyStates : ReadyStateChange(e, r)
    \/ Render
    \/ \E e \in Elems, m \in Msgs : ElementError(e, m)
    \/ MeshClick
    \/ TogglePlayPause
    \/ \E t \in SeekTimes : SeekToTime(t)
    \/ \E c \in Slots, e \in Elems, ok \in BOOLEAN : SettlePlay(c, e, ok)
    \/ \E id \in TimerIds : Tick(id)
    \/ \E e \in Elems : Advance(e)
    \/ CheckReadiness
    \/ Unmount

Spec == Init /\ [][Next]_vars

\* ------------------------------------------ no canplay after the mount
\* The program while VideoMesh stays mounted and no canplay event is
\* delivered after the readiness effect has subscribed: readyState never
\* rises to HAVE_FUTURE_DATA.  React commits every queued state update of a
\* mounted component, hence the fairness of Render.
QuietReadyStateChange(e, r) ==
    /\ r < HAVE_FUTURE_DATA
    /\ ReadyStateChange(e, r)

GateNext ==
    \/ \E e \in Elems, r \in ReadyStates : QuietReadyStateChange(e, r)
    \/ Render
    \/ \E e \in Elems, m \in Msgs : ElementError(e, m)
    \/ MeshClick
    \/ TogglePlayPause
    \/ \E t \in SeekTimes : SeekToTime(t)
    \/ \E c \in Slots, e \in Elems, ok \in BOOLEAN : SettlePlay(c, e, ok)
    \/ \E id \in TimerIds : Tick(id)
    \/ \E e \in Elems : Advance(e)
    \/ CheckReadiness

GateSpec == Init /\ [][GateNext]_vars /\ WF_vars(Render)

\* ------------------------------------------- seekTo on its own inputs
\* seekTo as a function of the positions and its argument: every pair of
\* positions, every paused / readyState combination, every time from below 0
\* to beyond the duration.  last.info carries the argument.
SeekArgs == (0 - 1)..(MaxPos + 1)

SeekInit ==
    /\ readyState \in [Elems -> ReadyStates]
    /\ elemError = [e \in Elems |-> NoError]
    /\ paused \in [Elems -> BOOLEAN]
    /\ currentTime \in [Elems -> 0..MaxPos]
    /\ syncIntervalRef = Null
    /\ timers = {}
    /\ bothVideosReady = FALSE
    /\ readyUpdate = FALSE
    /\ calls = [c \in Slots |-> NoCall]
    /\ isPlaying = FALSE
    /\ videosReady = FALSE
    /\ error = <<>>
    /\ loadingStatus = "Loading..."
    /\ mounted = TRUE
    /\ started = FALSE
    /\ pausedSince = FALSE
    /\ seekedSince = FALSE
    /\ last = Rec("init", "na", "na")

SeekApply(t) ==
    /\ currentTime' = seekTo(currentTime, t)
    /\ last' = Rec("seekTo", "na", t)
    /\ UNCHANGED <<readyState, elemError, paused, syncIntervalRef, timers,
                   bothVideosReady, readyUpdate, calls, isPlaying, videosReady,
                   error, loadingStatus, mounted, started, pausedSince,
                   seekedSince>>

SeekNext == \E t \in SeekArgs : SeekApply(t)

SeekSpec == SeekInit /\ [][SeekNext]_vars

\* ----------------------------------------------------------- claims
Drift == Abs(currentTime["main"] - currentTime["mask"])

\* C1: when pauseVideo returns no interval is scheduled, and no syncVideos
\* tick fires between that return and the next call of playVideo.
C1_NoTickAfterPause ==
    /\ last.op = "pauseVideo" => timers = {}
    /\ ~(pausedSince /\ last.op = "tick")

\* C2: once the gate's pending update has been rendered, bothVideosReady is
\* true iff both elements have readyState >= HAVE_FUTURE_DATA and neither is
\* in error.
C2_GateTracksReadiness ==
    ~readyUpdate =>
        (bothVideosReady <=>
            \A e \in Elems : readyState[e] >= HAVE_FUTURE_DATA
                              /\ elemError[e] = NoError)

\* C3: a corrector tick leaves the primary's position as it was.
C3_TickKeepsPrimary ==
    [][last'.op = "tick" => currentTime'["main"] = currentTime["main"]]_vars

C3_Witness ==
    /\ last.op = "tick"
    /\ last.info = "mainAhead"
    /\ currentTime["main"] > SYNC_THRESHOLD
    /\ currentTime["mask"] = currentTime["main"]

\* C4: a corrector tick that measures a drift of at most SYNC_THRESHOLD,
\* the threshold itself included, changes neither position.
C4_NoSeekWithinThreshold ==
    [][(last'.op = "tick" /\ Drift <= SYNC_THRESHOLD)
          => currentTime' = currentTime]_vars

C4_Witness ==
    /\ last.op = "tick"
    /\ last.info = "within"
    /\ Drift = SYNC_THRESHOLD

\* C5: a corrector tick that measures a drift above SYNC_THRESHOLD sets the
\* follower's position to the primary's, so the drift after the tick is 0,
\* whichever of the two was ahead.
C5_TickCorrectsFollower ==
    [][(last'.op = "tick" /\ Drift > SYNC_THRESHOLD)
          => /\ currentTime'["mask"] = currentTime["main"]
             /\ Drift' = 0]_vars

C5_Witness ==
    /\ last.op = "tick"
    /\ last.info = "maskAhead"
    /\ Drift = 0

\* C6: a playVideo call that resets the positions and issues play() was made
\* in SyncState Ready or Paused; in NotReady, Playing and Error the call does
\* neither.
C6_PlayOnlyWhenReadyOrPaused ==
    last.op = "playVideo" => last.pre \in {"Ready", "Paused"}

\* C7: a playVideo call made while the pair is Playing changes no position,
\* issues no further play() and leaves the corrector's interval alone.
C7_PlayWhilePlayingNoEffect ==
    [][(SyncState = "Playing" /\ last'.op \in {"playVideo", "playRefused"})
          => /\ currentTime' = currentTime
             /\ paused' = paused
             /\ calls' = calls
             /\ timers' = timers
             /\ syncIntervalRef' = syncIntervalRef]_vars

\* C8: right after pauseVideo both elements are paused and no interval is
\* scheduled, and what a second pauseVideo would do (stopSyncMonitoring, then
\* pause() on both) leaves all of it as it is.
C8_PauseIdempotent ==
    last.op = "pauseVideo" =>
        LET stop == stopSyncMonitoring(syncIntervalRef, timers)
        IN  /\ stop.ref = syncIntervalRef
            /\ stop.timers = timers
            /\ pauseBoth(paused) = paused
            /\ timers = {}
            /\ syncIntervalRef = Null
            /\ \A e \in Elems : paused[e]
            /\ SyncState \in {"Paused", "Error"}

C8_Witness ==
    /\ last.op = "pauseVideo"
    /\ last.pre = "Playing"
    /\ last.info = "running"
    /\ SyncState = "Paused"

\* C9: after an element reports an error while the pair is Playing, no
\* interval is scheduled and both elements are paused.
C9_ErrorHaltsPair ==
    (last.op = "error" /\ last.pre = "Playing") =>
        /\ timers = {}
        /\ syncIntervalRef = Null
        /\ \A e \in Elems : paused[e]

\* C10: once an element has reported an error, no task clears the displayed
\* error, issues play(), starts an element or schedules an interval.
C10_ErrorTerminal ==
    [][HasError =>
          /\ error' # <<>>
          /\ timers' \subseteq timers
          /\ \A c \in Slots : calls'[c] = NoCall \/ calls'[c] = calls[c]
                                \/ calls[c] # NoCall
          /\ \A e \in Elems : paused'[e] \/ ~paused[e]]_vars

\* C11 as claimed: an accepted playVideo puts both elements at 0 on the first
\* play and, when it follows a pauseVideo, at the primary's position.
C11_ResumeFromPrimary ==
    [][last'.op = "playVideo" =>
          /\ ~started => \A e \in Elems : currentTime'[e] = 0
          /\ pausedSince =>
                \A e \in Elems : currentTime'[e] = currentTime["main"]]_vars

\* C11 as amended: an accepted playVideo puts both elements at position 0,
\* on the first play and on a resume alike.
C11_ResetToZero ==
    [][last'.op = "playVideo" => \A e \in Elems : currentTime'[e] = 0]_vars

C11_Witness ==
    /\ last.op = "playVideo"
    /\ last.pre = "Paused"
    /\ last.info = "resumeMoved"
    /\ \A e \in Elems : currentTime[e] = 0

C13_NoCorrectionAfterSeek ==
    [][(seekedSince /\ last'.op = "tick") => currentTime' = currentTime]_vars

\* C14: setBothVideosReady(true), with its log line, is called at most once:
\* no canplay handler calls it while an earlier call still awaits its render
\* (after the render the handlers see bothVideosReady = true and call nothing).
C14_ReadyNotifiedOnce ==
    [][~(/\ readyUpdate
         /\ \E e \in Elems : /\ readyState[e] < HAVE_FUTURE_DATA
                              /\ readyState'[e] >= HAVE_FUTURE_DATA
         /\ checkReady(readyState', bothVideosReady))]_vars

\* C15: whenever an interval is scheduled the pair is Playing.
C15_CorrectorOnlyWhilePlaying == timers # {} => SyncState = "Playing"

C17_StatusReflectsPlayback ==
    FreeSlots = Slots => (isPlaying <=> SyncState = "Playing")

\* C18: while the pair is NotReady or in Error, togglePlayPause and seekToTime
\* change neither element's paused flag or position, nor isPlaying.
C18_ControlsDisabledWhenNotReady ==
    [][(/\ SyncState \in {"NotReady", "Error"}
        /\ (TogglePlayPause \/ \E t \in SeekTimes : SeekToTime(t)))
          => /\ paused' = paused
             /\ currentTime' = currentTime
             /\ isPlaying' = isPlaying]_vars

\* C19 as claimed: after an element's error the text VideoPlayer holds is that
\* element's message and nothing else.
C19_ErrorVerbatim ==
    last.op = "error" => error = <<elemError[last.info]>>

\* C19 as amended: the text is "Main video error: " or "Mask video error: "
\* followed by the element's message, or by "Unknown error" when it has none.
C19_ErrorPrefixed ==
    last.op = "error" =>
        error = << IF last.info = "main" THEN "Main video error: "
                   ELSE "Mask video error: ",
                   IF elemError[last.info] = "" THEN "Unknown error"
                   ELSE elemError[last.info] >>

C19_Witness ==
    /\ last.op = "error"
    /\ last.info = "mask"
    /\ error = <<"Mask video error: ", "decode">>

\* C20: when one play() promise rejects after the other has resolved, both
\* elements are paused and no interval is scheduled.
C20_NoPartialSuccess ==
    (last.op = "playFailed" /\ last.info = "partial") =>
        /\ \A e \in Elems : paused[e]
        /\ timers = {}

\* C21: a transition is one uninterrupted step: while a playVideo call has
\* issued play() and not yet reached its end, no corrector tick, user action,
\* element error or readyState change takes place.
C21_TransitionsAtomic ==
    [][FreeSlots # Slots =>
          ~(\/ \E id \in TimerIds : Tick(id)
            \/ MeshClick
            \/ TogglePlayPause
            \/ \E t \in SeekTimes : SeekToTime(t)
            \/ \E e \in Elems, m \in Msgs : ElementError(e, m)
            \/ \E e \in Elems, r \in ReadyStates : ReadyStateChange(e, r))]_vars

\* C22: an accepted playVideo calls play() on the primary, then on the
\* follower; an interval is scheduled only by the step in which the second of
\* a call's two promises resolves; the step in which a promise rejects
\* schedules none and reports a playback error through onVideoError.
C22_StartAfterBothResolve ==
    [][/\ last'.op = "playVideo" => last'.issued = <<"main", "mask">>
       /\ (syncIntervalRef' # syncIntervalRef /\ syncIntervalRef' # Null) =>
             \E c \in Slots, e \in Elems :
                 /\ SettlePlay(c, e, TRUE)
                 /\ \A o \in Elems \ {e} : calls[c][o] = "resolved"
       /\ (\E c \in Slots, e \in Elems : SettlePlay(c, e, FALSE)) =>
             /\ timers' = timers
             /\ syncIntervalRef' = syncIntervalRef
             /\ error' = <<"Playback error: ", "rejected">>]_vars

C22_Witness ==
    /\ last.op = "playFailed"
    /\ last.info = "partial"
    /\ timers = {}
    /\ error = <<"Playback error: ", "rejected">>

\* C23 (under GateSpec, where no canplay is delivered after the mount): when
\* both elements have readyState >= HAVE_FUTURE_DATA as the readiness effect
\* first runs, bothVideosReady becomes true.
C23_EagerReady ==
    (last.op = "init" /\ \A e \in Elems : readyState[e] >= HAVE_FUTURE_DATA)
        ~> bothVideosReady

C23_Witness ==
    /\ bothVideosReady
    /\ ~readyUpdate
    /\ last.op = "env"
    /\ ~started

\* C24: once VideoMesh is unmounted no interval is scheduled and no
\* syncVideos tick fires.
C24_NoCorrectorAfterUnmount ==
    ~mounted => (timers = {} /\ last.op # "tick")

\* C25: bothVideosReady, once true, stays true in every step, whatever
\* readyState drops and element errors come later.
C25_ReadyLatch == [][bothVideosReady => bothVideosReady']_vars

C25_Witness ==
    /\ bothVideosReady
    /\ \E e \in Elems : readyState[e] < HAVE_FUTURE_DATA
    /\ HasError

\* C26: at most one interval is scheduled at any time, and syncIntervalRef
\* holds its id, or null when none is scheduled.
C26_AtMostOneTimer ==
    /\ Cardinality(timers) <= 1
    /\ timers = IF syncIntervalRef = Null THEN {} ELSE {syncIntervalRef}

C26_Witness ==
    /\ last.op = "started"
    /\ pausedSince
    /\ Cardinality(timers) = 1
    /\ syncIntervalRef \in timers

\* C27: VideoPlayer.videosReady is true only if VideoMesh.bothVideosReady is.
C27_PolledReadySound == videosReady => bothVideosReady

C27_Witness ==
    /\ videosReady
    /\ bothVideosReady
    /\ loadingStatus = "Videos synchronized and ready"
    /\ ~started

====
